---- MODULE Spec2Model ----
(***************************************************************************)
(* Verification model of column-semantics: the confidence engine, the     *)
(* rules engine and the inference engine of column_semantics.core.engine.  *)
(*                                                                         *)
(* Scores are Python floats that are sums of two-decimal constants; the    *)
(* model states them as integers counted in hundredths (0.95 is 95) and    *)
(* computes the floats themselves wherever the program compares or rounds  *)
(* them.                                                                   *)
(* A Python dict is a TLA+ record that has exactly the keys the dict has;  *)
(* dict.get(key) on a missing key is None.                                 *)
(***************************************************************************)
EXTENDS Integers, Sequences, FiniteSets, TLC

VARIABLES
    sc_signals,   \* ConfidenceEngine.score: the `signals` argument of the last call
    sc_base,      \* score: local base_score at the return
    sc_bonus,     \* score: local combination_bonus at the return
    sc_result,    \* score: the value returned
    sc_prev,      \* the value returned by the call before the evidence grew
    sc_calls,     \* how many score calls were made on this evidence list
    inf_rules,    \* the rule list the knowledge base supplies (KnowledgeBase.rules)
    inf_column,   \* InferenceEngine.infer: the `column_name` argument
    inf_signals,  \* InferenceEngine.infer: the `signals` argument
    inf_result,   \* the outcome of the infer call: the result returned or the exception raised
    inf_called,   \* whether infer was called
    analyzer,     \* the outcome of constructing a ColumnAnalyzer over inf_rules
    ev_rules,     \* the `rules` argument of RulesEngine(...)
    ev_engine,    \* the outcome of RulesEngine(rules=ev_rules)
    ev_signals,   \* RulesEngine.evaluate: the `signals` argument
    ev_called,    \* whether evaluate was called
    ev_loop,      \* evaluate: what its loop found for each rule it got to
    ev_result,    \* the outcome of the evaluate call: the list returned or the exception raised
    ev_again,     \* the outcome of a second evaluate call on the same engine and signals
    res_hyps,     \* InferenceResult.hypotheses, in the order the caller stored them
    res_read,     \* the properties of the result that were read
    res_best,     \* the value of result.best
    res_ambiguous,        \* the value of result.is_ambiguous
    res_recommendations,  \* the value of result.recommendations
    res_expected,         \* the value of result.expected_conditions
    res_asked,            \* the column name handed to get_best_for_column
    res_column_best,      \* the value of results.get_best_for_column(res_asked)
    evd_evidences,        \* EvidenceEngine._evidences
    evd_log,              \* every evidence handed to add or add_many, in call order
    evd_last,             \* the last call made on the EvidenceEngine
    evd_calls,            \* the number of aggregate calls made
    evd_result,           \* what the last aggregate call returned
    evd_prev,             \* what the aggregate call before it returned
    evd_summation         \* how the interpreter's sum() adds floats

sc_vars == <<sc_signals, sc_base, sc_bonus, sc_result, sc_prev, sc_calls>>
inf_vars == <<inf_rules, inf_column, inf_signals, inf_result, inf_called, analyzer>>
ev_vars == <<ev_rules, ev_engine, ev_signals, ev_called, ev_loop, ev_result, ev_again>>
res_vars ==
    <<res_hyps, res_read, res_best, res_ambiguous, res_recommendations, res_expected,
      res_asked, res_column_best>>
evd_vars ==
    <<evd_evidences, evd_log, evd_last, evd_calls, evd_result, evd_prev, evd_summation>>
vars == <<sc_vars, inf_vars, ev_vars, res_vars, evd_vars>>

----------------------------------------------------------------------------
(* Bounds of the model *)

\* longest signal list handed to score before it is extended
MaxEvidence == 3

\* longest signal list handed to infer
MaxSignals == 3

\* longest hypotheses list of an InferenceResult
MaxHypotheses == 3

\* most evidences an EvidenceEngine is handed, and most aggregate calls made on it
MaxStored == 3
MaxAggregates == 3

----------------------------------------------------------------------------
(* Python values *)

\* Python's None, as returned by dict.get on a missing key
None == "<None>"

\* dict.get(key)
Get(d, key) == IF key \in DOMAIN d THEN d[key] ELSE None

\* truthiness of a str-or-None value: None and "" are falsy
Truthy(v) == v # None /\ v # ""

\* all lists over S of length at most n
BoundedSeq(S, n) == UNION {[1..k -> S] : k \in 0..n}

Min(a, b) == IF a <= b THEN a ELSE b

\* the distinct elements of a list
Range(s) == {s[i] : i \in 1..Len(s)}

----------------------------------------------------------------------------
(* Python floats *)

\* A float of the program is an IEEE 754 double.  The model holds a
\* non-negative double exactly, as a natural number of units of 2^-68 written
\* in six digits of base 2^16, most significant first: every double from 2^-16
\* up to 2^12 is such a number of at most 53 significant bits.  Sums and
\* differences are formed exactly and then rounded to 53 significant bits,
\* a tie to the even neighbour, as IEEE 754 addition does.
LimbBase == 65536

Limbs == 1..6

\* the exponent of the unit: the digit of index 2 counts 2^64 units
UnitBits == 4 * 16 + 4

FloatZero == [i \in Limbs |-> 0]

\* carries (or borrows) from the least significant digit upwards
Carry(digits) ==
    LET t6 == digits[6]
        t5 == digits[5] + t6 \div LimbBase
        t4 == digits[4] + t5 \div LimbBase
        t3 == digits[3] + t4 \div LimbBase
        t2 == digits[2] + t3 \div LimbBase
        t1 == digits[1] + t2 \div LimbBase
    IN <<t1 % LimbBase, t2 % LimbBase, t3 % LimbBase,
         t4 % LimbBase, t5 % LimbBase, t6 % LimbBase>>

NatAdd(a, b) == Carry([i \in Limbs |-> a[i] + b[i]])

\* a - b, for a >= b
NatSub(a, b) == Carry([i \in Limbs |-> a[i] - b[i]])

\* a * k, for a small factor k
NatTimes(a, k) == Carry([i \in Limbs |-> a[i] * k])

\* a >= b: the most significant digit that differs decides
NatNotBelow(a, b) ==
    LET differ == {i \in Limbs : a[i] # b[i]}
    IN differ = {} \/ LET first == CHOOSE i \in differ : \A j \in differ : i <= j
                      IN a[first] > b[first]

\* 2^n
Pow2(n) == [i \in Limbs |-> IF 6 - i = n \div 16 THEN 2^(n % 16) ELSE 0]

\* the number of significant bits of a
BitLength(a) ==
    IF a = FloatZero THEN 0
    ELSE LET top == CHOOSE i \in Limbs : a[i] # 0 /\ \A j \in 1..(i - 1) : a[j] = 0
         IN 16 * (6 - top)
            + (CHOOSE n \in 1..16 : 2^(n - 1) <= a[top] /\ a[top] < 2^n)

\* The multiple of 2^n nearest to a + f, where f = 0 unless `inexact` and
\* 0 < f < 1 if `inexact`; a tie goes to the even multiple.
RoundAt(a, n, inexact) ==
    LET \* a mod 2^n
        low == [i \in Limbs |->
                   IF 16 * (7 - i) <= n THEN a[i]
                   ELSE IF 16 * (6 - i) >= n THEN 0
                   ELSE a[i] % 2^(n - 16 * (6 - i))]
        \* bit n of a
        odd == (a[6 - n \div 16] \div 2^(n % 16)) % 2 = 1
        half == Pow2(n - 1)
        down == NatSub(a, low)
        above == (low # half /\ NatNotBelow(low, half)) \/ (low = half /\ inexact)
        tie == low = half /\ ~inexact
    IN IF above \/ (tie /\ odd) THEN NatAdd(down, Pow2(n)) ELSE down

\* the double nearest to a + f: 53 significant bits are kept
ToDouble(a, inexact) ==
    LET bits == BitLength(a)
    IN IF bits <= 53 THEN a ELSE RoundAt(a, bits - 53, inexact)

\* a + b on floats
float_add(a, b) == ToDouble(NatAdd(a, b), FALSE)

\* abs(a - b) on floats
float_abs_diff(a, b) ==
    IF NatNotBelow(a, b) THEN ToDouble(NatSub(a, b), FALSE)
    ELSE ToDouble(NatSub(b, a), FALSE)

\* a + b on floats with a sign, each a record [negative, magnitude]
float_signed_add(a, b) ==
    IF a.negative = b.negative
    THEN [negative |-> a.negative, magnitude |-> float_add(a.magnitude, b.magnitude)]
    ELSE IF a.magnitude = b.magnitude
    THEN [negative |-> FALSE, magnitude |-> FloatZero]
    ELSE [negative |-> IF NatNotBelow(a.magnitude, b.magnitude)
                       THEN a.negative ELSE b.negative,
          magnitude |-> float_abs_diff(a.magnitude, b.magnitude)]

\* a < b on floats
float_less(a, b) == ~NatNotBelow(a, b)

\* min(a, b) on floats: the first argument unless the second is smaller
float_min(a, b) == IF float_less(b, a) THEN b ELSE a

\* The float a decimal literal denotes: the double nearest to n / d, for a
\* literal of value n / d that is 0 or at least 2^-15.  The numerator in
\* units is divided digit by digit.
FloatOf(n, d) ==
    LET numerator == NatTimes(Pow2(UnitBits), n)
        \* the remainder of the i most significant digits by d
        RECURSIVE RemAfter(_)
        RemAfter(i) ==
            IF i = 0 THEN 0 ELSE (RemAfter(i - 1) * LimbBase + numerator[i]) % d
        quotient == [i \in Limbs |-> (RemAfter(i - 1) * LimbBase + numerator[i]) \div d]
    IN ToDouble(quotient, RemAfter(6) # 0)

----------------------------------------------------------------------------
(* Signals, as the detectors build them, and malformed ones *)

SigCurrency == [type |-> "currency", token |-> "usd", currency |-> "USD"]
SigAbbreviation == [type |-> "abbreviation", token |-> "amt", meaning |-> "amount"]
SigDate == [type |-> "date", token |-> "date", semantic |-> "calendar_date"]
SigRoleId == [type |-> "role", token |-> "id", role |-> "identifier"]
SigRoleKey == [type |-> "role", token |-> "key", role |-> "identifier"]
SigRoleMetric == [type |-> "role", token |-> "total", role |-> "metric"]
SigDataType == [type |-> "data_type", token |-> "int", data_type |-> "integer"]
SigUnknown == [type |-> "geo", token |-> "lat"]
SigEmptyType == [type |-> "", token |-> "y"]
SigNoType == [token |-> "x"]

SignalPool ==
    {SigCurrency, SigAbbreviation, SigDate, SigRoleId, SigRoleKey, SigRoleMetric,
     SigDataType, SigUnknown, SigEmptyType, SigNoType}

----------------------------------------------------------------------------
(* ConfidenceEngine *)

DEFAULT_WEIGHTS ==
    [abbreviation |-> 50, currency |-> 45, date |-> 60, role |-> 40, data_type |-> 30]

\* the fallback of DEFAULT_WEIGHTS.get(signal_type, 0.1)
FallbackWeight == 10

COMBINATION_BONUS ==
    << [combo |-> {"abbreviation", "currency"}, bonus |-> 25],
       [combo |-> {"role", "data_type"}, bonus |-> 20],
       [combo |-> {"date", "data_type"}, bonus |-> 15] >>

MAX_CONFIDENCE == 95

\* score caps the raw score when len(signals) >= CapLength
CapLength == 3

\* self.DEFAULT_WEIGHTS.get(signal_type, 0.1)
WeightOf(signal_type) ==
    IF signal_type \in DOMAIN DEFAULT_WEIGHTS
    THEN DEFAULT_WEIGHTS[signal_type]
    ELSE FallbackWeight

\* the weight one signal adds to base_score: nothing when its type is falsy
SignalWeight(signal) ==
    IF Truthy(Get(signal, "type")) THEN WeightOf(Get(signal, "type")) ELSE 0

\* a base score that counts each distinct signal once, however often it repeats
base_score_distinct(signals) ==
    LET RECURSIVE SumOver(_)
        SumOver(S) == IF S = {} THEN 0
                      ELSE LET x == CHOOSE y \in S : TRUE
                           IN SignalWeight(x) + SumOver(S \ {x})
    IN SumOver(Range(signals))

\* base_score after the first pass over the signals
RECURSIVE base_score(_)
base_score(signals) ==
    IF signals = <<>> THEN 0
    ELSE SignalWeight(Head(signals)) + base_score(Tail(signals))

\* signal_types after the first pass: the distinct truthy types
signal_types(signals) ==
    {Get(signals[i], "type") : i \in {j \in 1..Len(signals) : Truthy(Get(signals[j], "type"))}}

RECURSIVE BonusFrom(_, _)
BonusFrom(combos, types) ==
    IF combos = <<>> THEN 0
    ELSE (IF Head(combos).combo \subseteq types THEN Head(combos).bonus ELSE 0)
         + BonusFrom(Tail(combos), types)

_calculate_combination_bonus(types) == BonusFrom(COMBINATION_BONUS, types)

\* a final score that is capped whatever the number of signals
FinalScore_capAlways(n, raw_score) == Min(raw_score, MAX_CONFIDENCE)

\* a final score whose cap starts one signal late
FinalScore_capLate(n, raw_score) ==
    IF n > CapLength THEN Min(raw_score, MAX_CONFIDENCE) ELSE raw_score

\* the final score with conditional capping
FinalScore(n, raw_score) ==
    IF n >= CapLength THEN Min(raw_score, MAX_CONFIDENCE) ELSE raw_score

score(signals) ==
    IF signals = <<>> THEN 0
    ELSE FinalScore(Len(signals),
                    base_score(signals) + _calculate_combination_bonus(signal_types(signals)))

\* The same computation on the floats themselves.  A weight or a bonus of the
\* tables is the float its two-decimal literal denotes; the floats of the
\* literals up to 2.00 are worked out once.
TwoDecimalFloats == [n \in 0..200 |-> FloatOf(n, 100)]

Hundredths(n) == IF n \in 0..200 THEN TwoDecimalFloats[n] ELSE FloatOf(n, 100)

\* base_score += weight, signal by signal from base_score = 0.0
RECURSIVE base_score_float(_)
base_score_float(signals) ==
    IF signals = <<>> THEN FloatZero
    ELSE LET before == base_score_float(SubSeq(signals, 1, Len(signals) - 1))
             signal == signals[Len(signals)]
         IN IF Truthy(Get(signal, "type"))
            THEN float_add(before, Hundredths(WeightOf(Get(signal, "type"))))
            ELSE before

\* bonus += combo_bonus, combination by combination from bonus = 0.0
RECURSIVE BonusFloatFrom(_, _)
BonusFloatFrom(combos, types) ==
    IF combos = <<>> THEN FloatZero
    ELSE LET before == BonusFloatFrom(SubSeq(combos, 1, Len(combos) - 1), types)
             last == combos[Len(combos)]
         IN IF last.combo \subseteq types
            THEN float_add(before, Hundredths(last.bonus))
            ELSE before

\* the float that score returns; score(signals) is this float in hundredths
score_float(signals) ==
    IF signals = <<>> THEN FloatZero
    ELSE LET raw_score == float_add(base_score_float(signals),
                                    BonusFloatFrom(COMBINATION_BONUS, signal_types(signals)))
         IN IF Len(signals) >= CapLength
            THEN float_min(raw_score, Hundredths(MAX_CONFIDENCE))
            ELSE raw_score

----------------------------------------------------------------------------
(* Stable descending sort, as sorted(..., reverse=True) and list.sort do it *)

\* tuple a is not below tuple b in Python's tuple order
RECURSIVE TupleNotBelow(_, _)
TupleNotBelow(a, b) ==
    IF a = <<>> THEN TRUE
    ELSE IF Head(a) # Head(b) THEN Head(a) > Head(b)
    ELSE TupleNotBelow(Tail(a), Tail(b))

\* the list sorted by keys[i], the key of list[i], descending: each element is
\* put behind every element whose key is not below its own
SortDesc(list, keys) ==
    LET RECURSIVE InsertDesc(_, _)
        InsertDesc(sorted, i) ==
            IF sorted = <<>> THEN <<i>>
            ELSE IF TupleNotBelow(keys[Head(sorted)], keys[i])
                 THEN <<Head(sorted)>> \o InsertDesc(Tail(sorted), i)
                 ELSE <<i>> \o sorted
        RECURSIVE SortPrefix(_)
        SortPrefix(n) ==
            IF n = 0 THEN <<>> ELSE InsertDesc(SortPrefix(n - 1), n)
        order == SortPrefix(Len(list))
    IN [k \in 1..Len(list) |-> list[order[k]]]

\* the concatenation of a list of lists
RECURSIVE Flatten(_)
Flatten(lists) == IF lists = <<>> THEN <<>> ELSE Head(lists) \o Flatten(Tail(lists))

\* the part of a dict under the given keys
Restrict(d, keys) == [k \in (DOMAIN d \cap keys) |-> d[k]]

\* the empty dict
EmptyDict == [k \in {} |-> None]

----------------------------------------------------------------------------
(* Output models *)

\* the fields of the SemanticHypothesis dataclass, none of which has a default
SemanticHypothesisFields == {"label", "confidence", "rule"}

\* SemanticHypothesis(**kwargs) constructs only when given exactly its fields;
\* any other keyword set raises TypeError
Constructs(kwargs) == DOMAIN kwargs = SemanticHypothesisFields

\* RuleMatch(...) as evaluate builds it; a field that is None is left out
RuleMatch(rule, evidence) ==
    [label |-> rule.label,
     evidence |-> evidence,
     expected_conditions |->
        IF "expected_conditions" \in DOMAIN rule THEN rule.expected_conditions ELSE <<>>,
     recommended_treatment |->
        IF "recommended_treatment" \in DOMAIN rule THEN rule.recommended_treatment ELSE <<>>]
    @@ Restrict(rule, {"description", "priority", "priority_real"})

----------------------------------------------------------------------------
(* RulesEngine *)

\* field_priority of the `in` test, by the condition's signal type
FieldPriority(signal_type) ==
    IF signal_type = "role" THEN <<"role", "token", "meaning", "value">>
    ELSE IF signal_type = "currency" THEN <<"currency", "token", "meaning", "value">>
    ELSE IF signal_type = "abbreviation" THEN <<"token", "meaning", "role", "value">>
    ELSE <<"token", "role", "currency", "meaning", "value">>

\* signal_value: the value of the first field of the list the signal has
RECURSIVE FirstField(_, _)
FirstField(signal, fields) ==
    IF fields = <<>> THEN None
    ELSE IF Head(fields) \in DOMAIN signal THEN signal[Head(fields)]
    ELSE FirstField(signal, Tail(fields))

\* the body of the loop of _condition_matches for one signal of the right type
SignalSatisfies(condition, signal) ==
    IF "equals" \in DOMAIN condition
    THEN Get(signal, "value") = condition.equals
    ELSE IF "in" \in DOMAIN condition
    THEN LET signal_value == FirstField(signal, FieldPriority(Get(condition, "signal")))
         IN Truthy(signal_value) /\ signal_value \in condition.in
    ELSE Cardinality(DOMAIN condition) = 1

_condition_matches(condition, signals) ==
    \E i \in 1..Len(signals) :
        /\ Get(signals[i], "type") = Get(condition, "signal")
        /\ SignalSatisfies(condition, signals[i])

\* a reading of the block in which `all` asks for one condition only
_match_conditions_allAsAny(conditions, signals) ==
    IF "all" \in DOMAIN conditions
    THEN \E i \in 1..Len(conditions.all) : _condition_matches(conditions.all[i], signals)
    ELSE IF "any" \in DOMAIN conditions
    THEN \E i \in 1..Len(conditions.any) : _condition_matches(conditions.any[i], signals)
    ELSE FALSE

_match_conditions(conditions, signals) ==
    IF "all" \in DOMAIN conditions
    THEN \A i \in 1..Len(conditions.all) : _condition_matches(conditions.all[i], signals)
    ELSE IF "any" \in DOMAIN conditions
    THEN \E i \in 1..Len(conditions.any) : _condition_matches(conditions.any[i], signals)
    ELSE FALSE

\* a match that does not look at the `not` block
_rule_matches_noVeto(rule, signals) ==
    LET when_block == IF "when" \in DOMAIN rule THEN rule.when ELSE EmptyDict
    IN _match_conditions(when_block, signals)

_rule_matches(rule, signals) ==
    LET when_block == IF "when" \in DOMAIN rule THEN rule.when ELSE EmptyDict
    IN /\ _match_conditions(when_block, signals)
       /\ ~ ( /\ "not" \in DOMAIN rule
              /\ rule.not # EmptyDict
              /\ _match_conditions(rule.not, signals) )

\* when_block.get("all") or when_block.get("any") or []
ConditionBlocks(when_block) ==
    IF "all" \in DOMAIN when_block /\ when_block.all # <<>> THEN when_block.all
    ELSE IF "any" \in DOMAIN when_block /\ when_block.any # <<>> THEN when_block.any
    ELSE <<>>

\* a contribution of the signals that pass the condition's equals/in only
SignalsOfType_satisfying(condition, signals) ==
    SelectSeq(signals, LAMBDA signal :
        /\ Get(signal, "type") = Get(condition, "signal")
        /\ SignalSatisfies(condition, signal))

\* the signals one condition contributes to the evidence
SignalsOfType(condition, signals) ==
    SelectSeq(signals, LAMBDA signal : Get(signal, "type") = Get(condition, "signal"))

\* a collection that takes each signal of a named type once
_collect_evidence_once(rule, signals) ==
    LET when_block == IF "when" \in DOMAIN rule THEN rule.when ELSE EmptyDict
        condition_blocks == ConditionBlocks(when_block)
    IN SelectSeq(signals, LAMBDA signal :
           \E i \in 1..Len(condition_blocks) :
               Get(signal, "type") = Get(condition_blocks[i], "signal"))

_collect_evidence(rule, signals) ==
    LET when_block == IF "when" \in DOMAIN rule THEN rule.when ELSE EmptyDict
        condition_blocks == ConditionBlocks(when_block)
    IN Flatten([i \in 1..Len(condition_blocks) |-> SignalsOfType(condition_blocks[i], signals)])

\* a loop that does not look at min_signals
RuleFires_noMinimum(rule, signals) == _rule_matches(rule, signals)

\* whether evaluate appends a hypothesis for the rule
RuleFires(rule, signals) ==
    /\ _rule_matches(rule, signals)
    /\ ~ ( /\ "min_signals" \in DOMAIN rule
           /\ Len(_collect_evidence(rule, signals)) < rule.min_signals )

\* the SemanticHypothesis evaluate appends for a rule that fires
HypothesisOf(rule, signals) ==
    LET evidence == _collect_evidence(rule, signals)
    IN [label |-> rule.label,
        confidence |-> score(evidence),
        confidence_float |-> score_float(evidence),
        rule |-> RuleMatch(rule, evidence)]

\* h.confidence as the float it is: a hypothesis that evaluate scored carries
\* the float beside its value in hundredths, one that a caller built from a
\* two-decimal literal carries the literal alone
ConfidenceOf(h) ==
    IF "confidence_float" \in DOMAIN h THEN h.confidence_float
    ELSE Hundredths(h.confidence)

\* h.rule.priority or 0
PriorityOrZero(h) == IF "priority" \in DOMAIN h.rule THEN h.rule.priority ELSE 0

\* a sort by confidence alone
EvaluateKey_confidenceOnly(h) == <<h.confidence>>

\* the sort key of evaluate: (priority or 0, confidence)
EvaluateKey(h) == <<PriorityOrZero(h)>> \o ConfidenceOf(h)

\* the hypotheses are appended in rule order and then sorted
evaluate(rules, signals) ==
    LET hypotheses == Flatten([i \in 1..Len(rules) |->
                                  IF RuleFires(rules[i], signals)
                                  THEN <<HypothesisOf(rules[i], signals)>>
                                  ELSE <<>>])
    IN SortDesc(hypotheses, [i \in 1..Len(hypotheses) |-> EvaluateKey(hypotheses[i])])

\* a RulesEngine that accepts any rule list
RulesEngine_init_unchecked(rules) == "constructed"

\* RulesEngine.__init__: an empty rule list is refused
RulesEngine_init(rules) == IF rules = <<>> THEN "ValueError" ELSE "constructed"

\* reading a signal's type with signal["type"], which raises on a missing key
SignalReadRaises_subscript(signal) == "type" \notin DOMAIN signal

\* whether reading a signal's type raises: signal.get("type") never does
SignalReadRaises(signal) == FALSE

\* rule["label"] raises KeyError on a rule that has no label
LabelRaises(rule) == "label" \notin DOMAIN rule

\* the conditions the loop of evaluate tests the signals against for a rule
ConditionsRead(rule) ==
    LET when_block == IF "when" \in DOMAIN rule THEN rule.when ELSE EmptyDict
    IN IF "all" \in DOMAIN when_block THEN when_block.all
       ELSE IF "any" \in DOMAIN when_block THEN when_block.any
       ELSE <<>>

\* whether the pass of the loop of evaluate over the rule leaves by an exception
StepRaises(rule, signals) ==
    \/ /\ ConditionsRead(rule) # <<>>
       /\ \E j \in 1..Len(signals) : SignalReadRaises(signals[j])
    \/ RuleFires(rule, signals) /\ LabelRaises(rule)

\* what one pass of the loop of evaluate finds for a rule
LoopStep(rule, signals) ==
    [condition_matches |->
        [k \in 1..Len(ConditionsRead(rule)) |->
            _condition_matches(ConditionsRead(rule)[k], signals)],
     when_holds |->
        _match_conditions(IF "when" \in DOMAIN rule THEN rule.when ELSE EmptyDict, signals),
     matched |-> _rule_matches(rule, signals),
     evidence |-> IF _rule_matches(rule, signals)
                  THEN _collect_evidence(rule, signals) ELSE <<>>,
     fired |-> RuleFires(rule, signals),
     raised |-> StepRaises(rule, signals)]

\* the first rule whose pass raises, 0 when none does
FirstRaising(rules, signals) ==
    LET raising == {i \in 1..Len(rules) : StepRaises(rules[i], signals)}
    IN IF raising = {} THEN 0 ELSE CHOOSE i \in raising : \A j \in raising : i <= j

\* the passes of the loop of evaluate, up to the one that raises
evaluate_loop(rules, signals) ==
    LET last == IF FirstRaising(rules, signals) = 0 THEN Len(rules)
                ELSE FirstRaising(rules, signals)
    IN [i \in 1..last |-> LoopStep(rules[i], signals)]

\* the outcome of engine.evaluate(signals=...): the sorted list, or KeyError
evaluate_call(rules, signals) ==
    IF FirstRaising(rules, signals) # 0
    THEN [outcome |-> "KeyError", hypotheses |-> <<>>]
    ELSE [outcome |-> "returned", hypotheses |-> evaluate(rules, signals)]

----------------------------------------------------------------------------
(* InferenceResult *)

\* the key of best and of is_ambiguous: (priority if not None else 0, confidence)
RankKey(h) ==
    <<IF "priority" \in DOMAIN h.rule THEN h.rule.priority ELSE 0>> \o ConfidenceOf(h)

\* None where a SemanticHypothesis is expected (Optional[SemanticHypothesis])
NoHypothesis == [label |-> None]

\* the hypothesis stored first, whatever its rank
best_first(hypotheses) ==
    IF hypotheses = <<>> THEN NoHypothesis ELSE hypotheses[1]

\* InferenceResult.best: None without hypotheses, else max(...), the first
\* hypothesis in stored order that no other outranks
best(hypotheses) ==
    IF hypotheses = <<>> THEN NoHypothesis
    ELSE LET maximal == {i \in 1..Len(hypotheses) :
                            \A j \in 1..Len(hypotheses) :
                                TupleNotBelow(RankKey(hypotheses[i]), RankKey(hypotheses[j]))}
         IN hypotheses[CHOOSE i \in maximal : \A j \in maximal : i <= j]

\* the threshold of is_ambiguous, 0.15
AmbiguityThreshold == 15

\* abs(top.confidence - second.confidence) < 0.15, on floats
close_confidence(a, b) ==
    float_less(float_abs_diff(a, b), Hundredths(AmbiguityThreshold))

\* InferenceResult.is_ambiguous
is_ambiguous(hypotheses) ==
    IF Len(hypotheses) < 2 THEN FALSE
    ELSE LET sorted_h == SortDesc(hypotheses,
                                  [i \in 1..Len(hypotheses) |-> RankKey(hypotheses[i])])
             top == sorted_h[1]
             second == sorted_h[2]
             same_priority == PriorityOrZero(top) = PriorityOrZero(second)
         IN same_priority /\ close_confidence(ConfidenceOf(top), ConfidenceOf(second))

\* the treatments of every hypothesis, in stored order
recommendations_ofAll(hypotheses) ==
    Flatten([i \in 1..Len(hypotheses) |-> hypotheses[i].rule.recommended_treatment])

\* InferenceResult.recommendations
recommendations(hypotheses) ==
    IF best(hypotheses) = NoHypothesis THEN <<>>
    ELSE best(hypotheses).rule.recommended_treatment

\* InferenceResult.expected_conditions
expected_conditions(hypotheses) ==
    IF best(hypotheses) = NoHypothesis THEN <<>>
    ELSE best(hypotheses).rule.expected_conditions

----------------------------------------------------------------------------
(* ColumnAnalysisResults *)

\* ColumnAnalysisResults.get_best_for_column: None for a column without result
\* or hypotheses, else max(result.hypotheses, key=confidence), the first
\* hypothesis in stored order of the greatest confidence
get_best_for_column(columns, column_name) ==
    IF column_name \notin DOMAIN columns THEN NoHypothesis
    ELSE IF columns[column_name].hypotheses = <<>> THEN NoHypothesis
    ELSE LET hypotheses == columns[column_name].hypotheses
             maximal == {i \in 1..Len(hypotheses) :
                            \A j \in 1..Len(hypotheses) :
                                NatNotBelow(ConfidenceOf(hypotheses[i]),
                                            ConfidenceOf(hypotheses[j]))}
         IN hypotheses[CHOOSE i \in maximal : \A j \in maximal : i <= j]

----------------------------------------------------------------------------
(* InferenceEngine *)

\* the keyword parameters InferenceEngine.__init__ accepts
InferenceEngineInitParams == {}

\* _group_by_type raises KeyError on a signal without a "type" key
GroupingRaises(signals) == \E i \in 1..Len(signals) : "type" \notin DOMAIN signals[i]

\* grouped[signal_type] once _group_by_type has run
_group_by_type(signals, signal_type) ==
    SelectSeq(signals, LAMBDA signal : signal.type = signal_type)

\* the keyword arguments _build_hypothesis hands to SemanticHypothesis
_build_hypothesis(label, evidence) ==
    [label |-> label, evidence |-> evidence, confidence |-> score(evidence)]

_infer_monetary(signals) ==
    IF _group_by_type(signals, "currency") = <<>>
       \/ _group_by_type(signals, "abbreviation") = <<>>
    THEN <<>>
    ELSE <<_build_hypothesis("monetary_amount",
                             _group_by_type(signals, "currency")
                                \o _group_by_type(signals, "abbreviation"))>>

_infer_date(signals) ==
    IF _group_by_type(signals, "date") = <<>> THEN <<>>
    ELSE <<_build_hypothesis("date", _group_by_type(signals, "date"))>>

_infer_identifier(signals) ==
    LET roles == _group_by_type(signals, "role")
    IN Flatten([i \in 1..Len(roles) |->
                   IF Get(roles[i], "role") = "identifier"
                   THEN <<_build_hypothesis("identifier", <<roles[i]>>)>>
                   ELSE <<>>])

\* the hypotheses infer sets out to build, in the order it builds them
Attempted(signals) ==
    _infer_monetary(signals) \o _infer_date(signals) \o _infer_identifier(signals)

\* the sort key of infer: the confidence alone
InferKey(h) == <<h.confidence>>

\* an exception leaving the call
Raised(exception) == [outcome |-> exception, column_name |-> None, hypotheses |-> <<>>]

\* an InferenceResult returned by the call
Returned(column_name, hypotheses) ==
    [outcome |-> "returned", column_name |-> column_name, hypotheses |-> hypotheses]

infer(column_name, signals) ==
    IF GroupingRaises(signals) THEN Raised("KeyError")
    ELSE IF \E i \in 1..Len(Attempted(signals)) : ~Constructs(Attempted(signals)[i])
    THEN Raised("TypeError")
    ELSE LET hypotheses == Attempted(signals)
         IN Returned(column_name,
                     SortDesc(hypotheses,
                              [i \in 1..Len(hypotheses) |-> InferKey(hypotheses[i])]))

\* ColumnAnalyzer.__init__ over a loaded rule list: RulesEngine(rules=...) and
\* then InferenceEngine(rules_engine=rules_engine)
ColumnAnalyzer_init(rules) ==
    IF rules = <<>> THEN "ValueError"
    ELSE IF {"rules_engine"} \subseteq InferenceEngineInitParams THEN "constructed"
    ELSE "TypeError"

----------------------------------------------------------------------------
(* Rule lists and column names the calls are made with *)

RuleMonetary ==
    [label |-> "monetary_amount",
     when |-> [all |-> <<[signal |-> "currency"], [signal |-> "abbreviation"]>>],
     min_signals |-> 2,
     priority |-> 2,
     description |-> "amount of money",
     recommended_treatment |-> <<"sum">>]

RuleDate ==
    [label |-> "date",
     when |-> [any |-> <<[signal |-> "date"]>>],
     recommended_treatment |-> <<"parse">>]

RuleIdByRole ==
    [label |-> "identifier",
     when |-> [any |-> <<[signal |-> "role", in |-> {"identifier"}],
                         [signal |-> "abbreviation"]>>],
     priority |-> 1,
     recommended_treatment |-> <<"do_not_aggregate">>]

RuleIdByType ==
    [label |-> "identifier",
     when |-> [all |-> <<[signal |-> "data_type"]>>],
     not |-> [any |-> <<[signal |-> "date"]>>],
     priority |-> 2,
     recommended_treatment |-> <<"index">>]

RuleMeasure ==
    [label |-> "measure",
     when |-> [any |-> <<[signal |-> "role", in |-> {"metric"}],
                         [signal |-> "data_type", in |-> {"int"}]>>],
     priority |-> 1]

RuleInert ==
    [label |-> "inert", when |-> [either |-> <<[signal |-> "date"]>>]]

RuleLists ==
    { <<RuleMonetary, RuleDate, RuleIdByRole>>,
      <<RuleIdByRole, RuleIdByType, RuleDate>>,
      <<RuleInert, RuleMeasure>> }

ColumnNames == {"amt_usd", "created_at"}

\* a role signal that carries its role under `value`
SigRoleValue == [type |-> "role", token |-> "pk", value |-> "identifier"]

\* a date signal with none of the fields an `in` condition looks at
SigBareDate == [type |-> "date", semantic |-> "calendar_date"]

\* a currency signal whose first field is there and holds the empty string
SigCurrencyBlank == [type |-> "currency", token |-> "usd", currency |-> ""]

EvalSignalPool == SignalPool \cup {SigRoleValue, SigBareDate, SigCurrencyBlank}

RuleNoWhen == [label |-> "no_when", priority |-> 3]

RuleDatePair ==
    [label |-> "date_range",
     when |-> [any |-> <<[signal |-> "date"]>>],
     min_signals |-> 2,
     priority |-> 1]

RuleBoth ==
    [label |-> "priced_date",
     when |-> [all |-> <<[signal |-> "currency"]>>, any |-> <<[signal |-> "date"]>>]]

RuleEqualsId ==
    [label |-> "key",
     when |-> [all |-> <<[signal |-> "role", equals |-> "identifier"]>>],
     priority |-> 2]

RuleUnlabelled == [when |-> [any |-> <<[signal |-> "geo"]>>]]

\* two conditions that name the same signal type
RuleRolePair ==
    [label |-> "keyed_measure",
     when |-> [any |-> <<[signal |-> "role", in |-> {"identifier"}],
                         [signal |-> "role", in |-> {"metric"}]>>],
     priority |-> 1]

\* `in` lists that hold values of fields that are not the first of their signal,
\* then one that holds the code of a currency signal, and one that holds its
\* token and the empty string
RuleTokenIn ==
    [label |-> "named",
     when |-> [any |-> <<[signal |-> "role", in |-> {"id", "pk"}],
                         [signal |-> "abbreviation", in |-> {"amount"}],
                         [signal |-> "date", in |-> {"date", "calendar_date"}],
                         [signal |-> "currency", in |-> {"USD", "EUR"}],
                         [signal |-> "currency", in |-> {"", "usd"}]>>]]

\* a condition without equals and in that carries one more key
RuleAnnotated ==
    [label |-> "annotated",
     when |-> [any |-> <<[signal |-> "date", note |-> "calendar"]>>],
     priority |-> 1]

RuleVacuous == [label |-> "anything", when |-> [all |-> <<>>]]

RuleEmptyAllAny ==
    [label |-> "dated",
     when |-> [all |-> <<>>, any |-> <<[signal |-> "date"]>>],
     priority |-> 2]

\* two rules of one priority that collect the same signals in opposite orders:
\* their confidences are sums of the same weights, added in different orders
RuleRoleGeo ==
    [label |-> "located_key",
     when |-> [all |-> <<[signal |-> "role"], [signal |-> "geo"]>>],
     priority |-> 1]

RuleGeoRole ==
    [label |-> "keyed_place",
     when |-> [all |-> <<[signal |-> "geo"], [signal |-> "role"]>>],
     priority |-> 1]

EvalRuleLists ==
    RuleLists \cup
    { <<RuleNoWhen, RuleDatePair, RuleBoth, RuleEqualsId>>,
      <<RuleDate, RuleUnlabelled>>,
      <<RuleRolePair, RuleTokenIn>>,
      <<RuleAnnotated, RuleVacuous, RuleEmptyAllAny>>,
      <<RuleRoleGeo, RuleGeoRole>>,
      <<>> }

\* nothing was inferred and no analyzer was built
NoResult == [outcome |-> "none", column_name |-> None, hypotheses |-> <<>>]

InfIdle ==
    /\ inf_rules = <<>>
    /\ inf_column = ""
    /\ inf_signals = <<>>
    /\ inf_result = NoResult
    /\ inf_called = FALSE
    /\ analyzer = "none"

ScoreIdle ==
    /\ sc_signals = <<>>
    /\ sc_base = 0
    /\ sc_bonus = 0
    /\ sc_result = 0
    /\ sc_prev = 0
    /\ sc_calls = 0

\* no rules engine was built and evaluate was not called
NoEvaluation == [outcome |-> "none", hypotheses |-> <<>>]

EvalIdle ==
    /\ ev_rules = <<>>
    /\ ev_engine = "none"
    /\ ev_signals = <<>>
    /\ ev_called = FALSE
    /\ ev_loop = <<>>
    /\ ev_result = NoEvaluation
    /\ ev_again = NoEvaluation

\* an EvidenceEngine as constructed, on which nothing was called
EvidenceIdle ==
    /\ evd_evidences = <<>>
    /\ evd_log = <<>>
    /\ evd_last = "none"
    /\ evd_calls = 0
    /\ evd_result = EmptyDict
    /\ evd_prev = EmptyDict
    /\ evd_summation = "sequential"

\* an InferenceResult without hypotheses of which nothing was read
ResultIdle ==
    /\ res_hyps = <<>>
    /\ res_read = {}
    /\ res_best = NoHypothesis
    /\ res_ambiguous = FALSE
    /\ res_recommendations = <<>>
    /\ res_expected = <<>>
    /\ res_asked = None
    /\ res_column_best = NoHypothesis

----------------------------------------------------------------------------
(* Calls of InferenceEngine.infer *)

InitInfer ==
    /\ inf_rules \in RuleLists
    /\ inf_column \in ColumnNames
    /\ inf_signals \in BoundedSeq(SignalPool, MaxSignals)
    /\ inf_result = NoResult
    /\ inf_called = FALSE
    /\ analyzer = "none"
    /\ ScoreIdle
    /\ EvalIdle
    /\ ResultIdle
    /\ EvidenceIdle

\* ColumnAnalyzer(knowledge_base=...) with inf_rules as its rules
ConstructAnalyzer ==
    /\ analyzer = "none"
    /\ analyzer' = ColumnAnalyzer_init(inf_rules)
    /\ UNCHANGED <<inf_rules, inf_column, inf_signals, inf_result, inf_called, sc_vars, ev_vars, res_vars, evd_vars>>

\* InferenceEngine().infer(column_name=inf_column, signals=inf_signals)
Infer ==
    /\ ~inf_called
    /\ inf_result' = infer(inf_column, inf_signals)
    /\ inf_called' = TRUE
    /\ UNCHANGED <<inf_rules, inf_column, inf_signals, analyzer, sc_vars, ev_vars, res_vars, evd_vars>>

NextInfer == ConstructAnalyzer \/ Infer

SpecInfer == InitInfer /\ [][NextInfer]_vars

----------------------------------------------------------------------------
(* Construction of a RulesEngine and calls of RulesEngine.evaluate *)

InitEvaluate ==
    /\ ev_rules \in EvalRuleLists
    /\ ev_engine = "none"
    /\ ev_signals \in BoundedSeq(EvalSignalPool, MaxSignals)
    /\ ev_called = FALSE
    /\ ev_loop = <<>>
    /\ ev_result = NoEvaluation
    /\ ev_again = NoEvaluation
    /\ ScoreIdle
    /\ InfIdle
    /\ ResultIdle
    /\ EvidenceIdle

\* RulesEngine(rules=ev_rules)
ConstructEngine ==
    /\ ev_engine = "none"
    /\ ev_engine' = RulesEngine_init(ev_rules)
    /\ UNCHANGED <<ev_rules, ev_signals, ev_called, ev_loop, ev_result, ev_again,
                   sc_vars, inf_vars, res_vars, evd_vars>>

\* an evaluate that takes the signals it collected out of the caller's list
Evaluate_consuming ==
    /\ ev_engine = "constructed"
    /\ ~ev_called
    /\ ev_called' = TRUE
    /\ ev_loop' = evaluate_loop(ev_rules, ev_signals)
    /\ ev_result' = evaluate_call(ev_rules, ev_signals)
    /\ ev_signals' = SelectSeq(ev_signals, LAMBDA signal :
                         \A i \in DOMAIN ev_loop' :
                             signal \notin Range(ev_loop'[i].evidence))
    /\ UNCHANGED <<ev_rules, ev_engine, ev_again, sc_vars, inf_vars, res_vars, evd_vars>>

\* engine.evaluate(signals=ev_signals) on the engine that was built: the call
\* assigns to its locals only
Evaluate ==
    /\ ev_engine = "constructed"
    /\ ~ev_called
    /\ ev_called' = TRUE
    /\ ev_loop' = evaluate_loop(ev_rules, ev_signals)
    /\ ev_result' = evaluate_call(ev_rules, ev_signals)
    /\ UNCHANGED <<ev_rules, ev_engine, ev_signals, ev_again, sc_vars, inf_vars, res_vars, evd_vars>>

\* a second engine.evaluate(signals=ev_signals) on the same engine
EvaluateAgain ==
    /\ ev_called
    /\ ev_again = NoEvaluation
    /\ ev_again' = evaluate_call(ev_rules, ev_signals)
    /\ UNCHANGED <<ev_rules, ev_engine, ev_signals, ev_called, ev_loop, ev_result,
                   sc_vars, inf_vars, res_vars, evd_vars>>

NextEvaluate == ConstructEngine \/ Evaluate \/ EvaluateAgain

SpecEvaluate == InitEvaluate /\ [][NextEvaluate]_vars

----------------------------------------------------------------------------
(* Reads of the derived properties of an InferenceResult *)

\* SemanticHypothesis(label=, confidence=, rule=RuleMatch(...)) as a caller builds it
Hypothesis(label, confidence, rule) ==
    [label |-> label, confidence |-> confidence, rule |-> RuleMatch(rule, <<>>)]

HypMonetary ==
    Hypothesis("monetary_amount", 60,
               [label |-> "monetary_amount", priority |-> 2,
                recommended_treatment |-> <<"sum">>,
                expected_conditions |-> <<[dtype |-> "numeric"]>>])

HypIdentifier ==
    Hypothesis("identifier", 45,
               [label |-> "identifier", priority |-> 2,
                recommended_treatment |-> <<"do_not_aggregate">>,
                expected_conditions |-> <<[unique |-> TRUE]>>])

HypFlag ==
    Hypothesis("flag", 30,
               [label |-> "flag", priority |-> 2,
                recommended_treatment |-> <<"count">>])

HypDate ==
    Hypothesis("date", 60,
               [label |-> "date",
                recommended_treatment |-> <<"parse">>,
                expected_conditions |-> <<[dtype |-> "datetime"]>>])

HypMeasure ==
    Hypothesis("measure", 50,
               [label |-> "measure", priority |-> 0,
                recommended_treatment |-> <<"average">>])

HypKey ==
    Hypothesis("key", 60,
               [label |-> "key", priority |-> 1,
                recommended_treatment |-> <<"index">>,
                expected_conditions |-> <<[nullable |-> FALSE]>>])

HypCode ==
    Hypothesis("code", 40,
               [label |-> "code", priority |-> 1,
                expected_conditions |-> <<[dtype |-> "string"]>>])

HypothesisPool ==
    {HypMonetary, HypIdentifier, HypFlag, HypDate, HypMeasure, HypKey, HypCode}

Properties == {"best", "is_ambiguous", "recommendations", "expected_conditions"}

\* the column the InferenceResult is stored under in ColumnAnalysisResults
AnalysedColumn == "amt_usd"

\* ColumnAnalysisResults._columns: the results by column name
Columns(hypotheses) ==
    [c \in {AnalysedColumn} |-> [column_name |-> c, hypotheses |-> hypotheses]]

InitResult ==
    /\ res_hyps \in BoundedSeq(HypothesisPool, MaxHypotheses)
    /\ res_read = {}
    /\ res_best = NoHypothesis
    /\ res_ambiguous = FALSE
    /\ res_recommendations = <<>>
    /\ res_expected = <<>>
    /\ res_asked = None
    /\ res_column_best = NoHypothesis
    /\ ScoreIdle
    /\ InfIdle
    /\ EvalIdle
    /\ EvidenceIdle

\* result.best
ReadBest ==
    /\ "best" \notin res_read
    /\ res_read' = res_read \cup {"best"}
    /\ res_best' = best(res_hyps)
    /\ UNCHANGED <<res_hyps, res_ambiguous, res_recommendations, res_expected,
                   res_asked, res_column_best, sc_vars, inf_vars, ev_vars, evd_vars>>

\* result.is_ambiguous
ReadIsAmbiguous ==
    /\ "is_ambiguous" \notin res_read
    /\ res_read' = res_read \cup {"is_ambiguous"}
    /\ res_ambiguous' = is_ambiguous(res_hyps)
    /\ UNCHANGED <<res_hyps, res_best, res_recommendations, res_expected,
                   res_asked, res_column_best, sc_vars, inf_vars, ev_vars, evd_vars>>

\* result.recommendations
ReadRecommendations ==
    /\ "recommendations" \notin res_read
    /\ res_read' = res_read \cup {"recommendations"}
    /\ res_recommendations' = recommendations(res_hyps)
    /\ UNCHANGED <<res_hyps, res_best, res_ambiguous, res_expected,
                   res_asked, res_column_best, sc_vars, inf_vars, ev_vars, evd_vars>>

\* result.expected_conditions
ReadExpectedConditions ==
    /\ "expected_conditions" \notin res_read
    /\ res_read' = res_read \cup {"expected_conditions"}
    /\ res_expected' = expected_conditions(res_hyps)
    /\ UNCHANGED <<res_hyps, res_best, res_ambiguous, res_recommendations,
                   res_asked, res_column_best, sc_vars, inf_vars, ev_vars, evd_vars>>

\* results.get_best_for_column(name), for a column that was analysed or not
GetBestForColumn ==
    /\ "get_best_for_column" \notin res_read
    /\ res_read' = res_read \cup {"get_best_for_column"}
    /\ \E name \in ColumnNames :
        /\ res_asked' = name
        /\ res_column_best' = get_best_for_column(Columns(res_hyps), name)
    /\ UNCHANGED <<res_hyps, res_best, res_ambiguous, res_recommendations, res_expected,
                   sc_vars, inf_vars, ev_vars, evd_vars>>

NextResult ==
    \/ ReadBest
    \/ ReadIsAmbiguous
    \/ ReadRecommendations
    \/ ReadExpectedConditions
    \/ GetBestForColumn

SpecResult == InitResult /\ [][NextResult]_vars

----------------------------------------------------------------------------
(* EvidenceEngine: add, add_many, aggregate *)

\* Evidence(semantic_type=, rule_name=, weight=, reason=), the weight in
\* ten-thousandths
Evidence(semantic_type, rule_name, weight) ==
    [semantic_type |-> semantic_type, rule_name |-> rule_name,
     weight |-> weight, reason |-> rule_name]

EvDateSuffix == Evidence("date", "suffix_at", 5000)
EvDateType == Evidence("date", "datetime_dtype", 35)
EvAmountName == Evidence("amount", "amount_token", 3332)
EvPrimaryId == Evidence("primary_id", "id_suffix", 7000)

\* weights that end half-way between two thousandths, alone or in a sum
EvIdHint == Evidence("primary_id", "key_hint", 15)
EvAmountTrace == Evidence("amount", "trace", 45)

EvidencePool ==
    {EvDateSuffix, EvDateType, EvAmountName, EvAmountTrace, EvPrimaryId, EvIdHint}

\* The built-in sum() is the interpreter's, and interpreters differ on floats:
\* up to CPython 3.11 it adds the items one after the other, from CPython 3.12
\* on it keeps the rounding errors of the additions in a compensation and adds
\* that at the end.  An engine runs on one interpreter.
Summations == {"sequential", "compensated"}

\* sum(e.weight for e in evidences), of the floats that the four-decimal
\* literals of the weights denote, for a list that is not empty
total_weight(evidences, summation) ==
    LET weight(i) == FloatOf(evidences[i].weight, 10000)
        Plus(m) == [negative |-> FALSE, magnitude |-> m]
        Minus(m) == [negative |-> TRUE, magnitude |-> m]
        \* result = result + item, from 0
        RECURSIVE Sequential(_)
        Sequential(n) ==
            IF n = 0 THEN FloatZero ELSE float_add(Sequential(n - 1), weight(n))
        \* f_result and c after n items: t = f_result + x, then
        \* c += (f_result - t) + x if fabs(f_result) >= fabs(x), else
        \* c += (x - t) + f_result, then f_result = t
        RECURSIVE Compensated(_)
        Compensated(n) ==
            IF n = 1 THEN [f_result |-> weight(1), c |-> Plus(FloatZero)]
            ELSE LET before == Compensated(n - 1)
                     f == before.f_result
                     x == weight(n)
                     t == float_add(f, x)
                     lost == IF NatNotBelow(f, x)
                             THEN float_signed_add(
                                      float_signed_add(Plus(f), Minus(t)), Plus(x))
                             ELSE float_signed_add(
                                      float_signed_add(Plus(x), Minus(t)), Plus(f))
                 IN [f_result |-> t, c |-> float_signed_add(before.c, lost)]
        end == Compensated(Len(evidences))
    IN IF summation = "sequential" THEN Sequential(Len(evidences))
       \* if (c && Py_IS_FINITE(c)) f_result += c
       ELSE IF end.c.magnitude = FloatZero THEN end.f_result
       ELSE float_signed_add(Plus(end.f_result), end.c).magnitude

\* round(total_weight, 3), in ten-thousandths as the weights are: Python rounds
\* the exact value of the float to the nearest thousandth, a tie to the even
\* one
round3(total) ==
    LET thousandths == RoundAt(NatTimes(total, 1000), UnitBits, FALSE)
    IN 10 * (thousandths[1] * 2^12 + thousandths[2] \div 2^4)

\* grouped[semantic_type]: the stored evidences of the type, in stored order
grouped(evidences, semantic_type) ==
    SelectSeq(evidences, LAMBDA e : e.semantic_type = semantic_type)

\* EvidenceEngine.aggregate: an entry for each type that has evidence
aggregate(evidences, summation) ==
    [semantic_type \in {evidences[i].semantic_type : i \in 1..Len(evidences)} |->
        [score |-> round3(total_weight(grouped(evidences, semantic_type), summation)),
         evidences |-> grouped(evidences, semantic_type)]]

InitEvidence ==
    /\ evd_evidences = <<>>
    /\ evd_log = <<>>
    /\ evd_last = "none"
    /\ evd_calls = 0
    /\ evd_result = EmptyDict
    /\ evd_prev = EmptyDict
    /\ evd_summation \in Summations
    /\ ScoreIdle
    /\ InfIdle
    /\ EvalIdle
    /\ ResultIdle

\* engine.add(evidence)
Add ==
    /\ Len(evd_log) < MaxStored
    /\ \E evidence \in EvidencePool :
        /\ evd_evidences' = Append(evd_evidences, evidence)
        /\ evd_log' = Append(evd_log, evidence)
    /\ evd_last' = "add"
    /\ UNCHANGED <<evd_calls, evd_result, evd_prev, evd_summation,
                   sc_vars, inf_vars, ev_vars, res_vars>>

\* engine.add_many(evidences), the empty iterable included
AddMany ==
    /\ \E evidences \in BoundedSeq(EvidencePool, MaxStored - Len(evd_log)) :
        /\ evd_evidences' = evd_evidences \o evidences
        /\ evd_log' = evd_log \o evidences
    /\ evd_last' = "add_many"
    /\ UNCHANGED <<evd_calls, evd_result, evd_prev, evd_summation,
                   sc_vars, inf_vars, ev_vars, res_vars>>

\* an aggregate that hands the stored evidences out and starts afresh
Aggregate_resetting ==
    /\ evd_calls < MaxAggregates
    /\ evd_result' = aggregate(evd_evidences, evd_summation)
    /\ evd_prev' = evd_result
    /\ evd_calls' = evd_calls + 1
    /\ evd_last' = IF evd_last \in {"aggregate", "aggregate again"}
                   THEN "aggregate again" ELSE "aggregate"
    /\ evd_evidences' = <<>>
    /\ UNCHANGED <<evd_log, evd_summation, sc_vars, inf_vars, ev_vars, res_vars>>

\* engine.aggregate(): reads self._evidences, builds a new dict
Aggregate ==
    /\ evd_calls < MaxAggregates
    /\ evd_result' = aggregate(evd_evidences, evd_summation)
    /\ evd_prev' = evd_result
    /\ evd_calls' = evd_calls + 1
    /\ evd_last' = IF evd_last \in {"aggregate", "aggregate again"}
                   THEN "aggregate again" ELSE "aggregate"
    /\ UNCHANGED <<evd_evidences, evd_log, evd_summation,
                   sc_vars, inf_vars, ev_vars, res_vars>>

NextEvidence == Add \/ AddMany \/ Aggregate

SpecEvidence == InitEvidence /\ [][NextEvidence]_vars

----------------------------------------------------------------------------
(* Calls of ConfidenceEngine.score *)

InitScore ==
    /\ sc_signals \in BoundedSeq(SignalPool, MaxEvidence)
    /\ sc_base = 0
    /\ sc_bonus = 0
    /\ sc_result = 0
    /\ sc_prev = 0
    /\ sc_calls = 0
    /\ InfIdle
    /\ EvalIdle
    /\ ResultIdle
    /\ EvidenceIdle

\* score(sc_signals)
Score ==
    /\ sc_calls = 0
    /\ sc_base' = base_score(sc_signals)
    /\ sc_bonus' = _calculate_combination_bonus(signal_types(sc_signals))
    /\ sc_result' = score(sc_signals)
    /\ sc_prev' = sc_result
    /\ sc_calls' = 1
    /\ UNCHANGED <<sc_signals, inf_vars, ev_vars, res_vars, evd_vars>>

\* score(sc_signals + [s]): the caller adds one more piece of evidence
ScoreMore ==
    /\ sc_calls = 1
    /\ \E s \in SignalPool :
        /\ sc_signals' = Append(sc_signals, s)
        /\ sc_base' = base_score(sc_signals')
        /\ sc_bonus' = _calculate_combination_bonus(signal_types(sc_signals'))
        /\ sc_result' = score(sc_signals')
    /\ sc_prev' = sc_result
    /\ sc_calls' = 2
    /\ UNCHANGED <<inf_vars, ev_vars, res_vars, evd_vars>>

NextScore == Score \/ ScoreMore

SpecScore == InitScore /\ [][NextScore]_vars

----------------------------------------------------------------------------
(* Properties of InferenceEngine.infer, checked under SpecInfer *)

\* the labels of a list of hypotheses
Labels(hypotheses) == {hypotheses[i].label : i \in 1..Len(hypotheses)}

\* no two hypotheses of the list share a label
UniqueLabels(hypotheses) ==
    \A i, j \in 1..Len(hypotheses) : i # j => hypotheses[i].label # hypotheses[j].label

\* the priority a hypothesis carries, 0 when it carries none
CarriedPriority(h) ==
    IF "rule" \in DOMAIN h /\ "priority" \in DOMAIN h.rule THEN h.rule.priority ELSE 0

\* a ranks above b by (priority, confidence), priority first
RanksAbove(a, b) ==
    \/ CarriedPriority(a) > CarriedPriority(b)
    \/ CarriedPriority(a) = CarriedPriority(b) /\ a.confidence > b.confidence

\* a and b have the same (priority, confidence) pair
SameRank(a, b) ==
    CarriedPriority(a) = CarriedPriority(b) /\ a.confidence = b.confidence

\* the hypotheses the rules engine emits for the call's signals
RawHypotheses == evaluate(inf_rules, inf_signals)

\* every signal of the call has a type
AllTyped == \A i \in 1..Len(inf_signals) : "type" \in DOMAIN inf_signals[i]

\* how many signals of the call are role signals whose role is 'identifier'
IdentifierRoleSignals ==
    Cardinality({i \in 1..Len(inf_signals) :
                    Get(inf_signals[i], "type") = "role"
                    /\ Get(inf_signals[i], "role") = "identifier"})

\* C1: the InferenceResult infer returns holds no two hypotheses with the same
\* label, also when several signals each support the same label (two role
\* signals whose role is 'identifier').
C1_ResultLabelsUnique ==
    (inf_called /\ AllTyped /\ IdentifierRoleSignals >= 2) =>
        /\ inf_result.outcome = "returned"
        /\ UniqueLabels(inf_result.hypotheses)

\* C2: whenever two raw hypotheses share a label, the result keeps exactly
\* one hypothesis of that label, the one with the greater (priority,
\* confidence) pair, priority first and an absent priority counted as 0.
C2_KeepsGreatestOfEachLabel ==
    (inf_called /\ inf_result.outcome = "returned") =>
        \A i, j \in 1..Len(RawHypotheses) :
            (i # j /\ RawHypotheses[i].label = RawHypotheses[j].label) =>
                LET same == {m \in 1..Len(RawHypotheses) :
                                RawHypotheses[m].label = RawHypotheses[i].label}
                    kept == {k \in 1..Len(inf_result.hypotheses) :
                                inf_result.hypotheses[k].label = RawHypotheses[i].label}
                IN /\ Cardinality(kept) = 1
                   /\ \A k \in kept :
                        /\ \A m \in same :
                              ~RanksAbove(RawHypotheses[m], inf_result.hypotheses[k])
                        /\ \E m \in same :
                              SameRank(RawHypotheses[m], inf_result.hypotheses[k])

\* C3: for signals that support hypotheses of two or more labels, infer
\* returns an InferenceResult whose hypotheses are sorted by (priority,
\* confidence) descending: no hypothesis ranks above one that stands before it.
C3_ResultSortedByPriorityThenConfidence ==
    (inf_called /\ AllTyped /\ Cardinality(Labels(Attempted(inf_signals))) >= 2) =>
        /\ inf_result.outcome = "returned"
        /\ \A i, j \in 1..Len(inf_result.hypotheses) :
              i < j => ~RanksAbove(inf_result.hypotheses[j], inf_result.hypotheses[i])

\* C4: the labels of the result infer returns are the labels of the hypotheses
\* RulesEngine.evaluate emits for the loaded rule list on the same signals.
C4_LabelsComeFromRulesEngine ==
    (inf_called /\ inf_result.outcome = "returned") =>
        Labels(inf_result.hypotheses) = Labels(RawHypotheses)

\* C5: infer has no error outcome: every call completes and returns an
\* InferenceResult that carries the original column name.
C5_InferAlwaysReturns ==
    inf_called =>
        /\ inf_result.outcome = "returned"
        /\ inf_result.column_name = inf_column

----------------------------------------------------------------------------
(* Properties of ConfidenceEngine.score, checked under SpecScore *)

\* the type of each item of a list, None when the item has no type
TypesOf(signals) == [i \in 1..Len(signals) |-> Get(signals[i], "type")]

\* the number of items of a list whose type is t
CountType(signals, t) == Cardinality({i \in 1..Len(signals) : Get(signals[i], "type") = t})

\* the per-item weights as documented: the five known types, 0.1 otherwise
DocumentedWeight(t) ==
    CASE t = "abbreviation" -> 50
      [] t = "currency" -> 45
      [] t = "date" -> 60
      [] t = "role" -> 40
      [] t = "data_type" -> 30
      [] OTHER -> 10

\* the sum of the documented weights of the items' types, repeats counted
RECURSIVE DocumentedBase(_)
DocumentedBase(types) ==
    IF types = <<>> THEN 0
    ELSE DocumentedWeight(Head(types)) + DocumentedBase(Tail(types))

\* C6: every score is between 0.0 and 0.95, whatever the evidence list.
C6_ScoreWithinCap ==
    sc_calls > 0 => (0 <= sc_result /\ sc_result <= 95)

\* C7: the 0.95 cap applies exactly when the evidence list has 3 or more
\* items: then the score is min(base + bonus, 0.95); with 1 or 2 items it is
\* base + bonus; the list [currency, abbreviation] scores 1.20.
C7_CapFromThreeItems ==
    (sc_calls > 0 /\ sc_signals # <<>>) =>
        /\ Len(sc_signals) >= 3 =>
              sc_result = (IF sc_base + sc_bonus < 95 THEN sc_base + sc_bonus ELSE 95)
        /\ Len(sc_signals) < 3 => sc_result = sc_base + sc_bonus
        /\ TypesOf(sc_signals) = <<"currency", "abbreviation">> => sc_result = 120

C7_Witness ==
    /\ sc_calls = 1
    /\ sc_signals = <<SigCurrency, SigAbbreviation>>
    /\ sc_result = 120

\* C8 as stated: the base score is the sum over every evidence item of the
\* documented weight of its type, 0.1 for every item whose type is not one
\* of the five, an item with a missing or an empty type included.
C8_BaseCountsUntyped ==
    sc_calls > 0 => sc_base = DocumentedBase(TypesOf(sc_signals))

\* the documented weight, an item with a missing or empty type adding nothing
TypedWeight(t) == IF t = None \/ t = "" THEN 0 ELSE DocumentedWeight(t)

\* the sum of those weights over the items' types, repeats counted
RECURSIVE TypedBase(_)
TypedBase(types) ==
    IF types = <<>> THEN 0 ELSE TypedWeight(Head(types)) + TypedBase(Tail(types))

\* C8 amended: the base score is the sum over every evidence item, repeats
\* counted each time, of the documented weight of its type, 0.1 for a
\* non-empty type outside the five and 0 for a missing or empty type; a
\* single date item scores exactly 0.60.
C8_BaseIsSumOfTypedWeights ==
    sc_calls > 0 =>
        /\ sc_base = TypedBase(TypesOf(sc_signals))
        /\ TypesOf(sc_signals) = <<"date">> => sc_result = 60

C8_Witness ==
    /\ sc_calls > 0
    /\ CountType(sc_signals, "role") = 2
    /\ CountType(sc_signals, "geo") = 1
    /\ CountType(sc_signals, None) = 1
    /\ sc_base = 90

\* the five documented pairs and their bonuses
DocumentedBonus(types) ==
    (IF {"abbreviation", "currency"} \subseteq types THEN 25 ELSE 0)
    + (IF {"role", "data_type"} \subseteq types THEN 20 ELSE 0)
    + (IF {"date", "data_type"} \subseteq types THEN 15 ELSE 0)
    + (IF {"abbreviation", "role"} \subseteq types THEN 30 ELSE 0)
    + (IF {"abbreviation", "date"} \subseteq types THEN 25 ELSE 0)

\* C9: the combination bonus is the sum of the bonuses of those of the five
\* documented pairs whose two types both occur among the evidence's types,
\* each pair counted once.
C9_BonusOverFivePairs ==
    sc_calls > 0 => sc_bonus = DocumentedBonus(Range(TypesOf(sc_signals)))

\* C10: when one more signal is added to an evidence list that already has
\* two or more items, the score of the longer list is at most 0.95.
C10_ThirdItemCapped ==
    (sc_calls = 2 /\ Len(sc_signals) >= 2 + 1) => sc_result <= 95

C10_Witness ==
    /\ sc_calls = 2
    /\ Len(sc_signals) = 3
    /\ sc_prev = 120
    /\ sc_base + sc_bonus > 95
    /\ sc_result = 95

----------------------------------------------------------------------------
(* Properties of RulesEngine, checked under SpecEvaluate *)

\* C12: constructing a RulesEngine over an empty rule list ends in ValueError
\* and over a non-empty one succeeds, so evaluate never runs on an engine
\* that has no rules.
C12_EmptyRuleListRefused ==
    /\ ev_engine # "none" =>
          /\ ev_rules = <<>> => ev_engine = "ValueError"
          /\ ev_rules # <<>> => ev_engine = "constructed"
    /\ ev_called => ev_rules # <<>>

C12_Witness ==
    /\ ev_rules = <<>>
    /\ ev_engine = "ValueError"
    /\ ~ev_called

\* the rules of the list all carry a label
AllLabelled(rules) == \A i \in 1..Len(rules) : "label" \in DOMAIN rules[i]

\* the rule has no `when`, or a `when` with neither `all` nor `any`
NoRecognisedWhen(rule) ==
    \/ "when" \notin DOMAIN rule
    \/ /\ "all" \notin DOMAIN rule.when
       /\ "any" \notin DOMAIN rule.when

\* the signal has no type, or a type no rule of the list names in a condition
Offending(signal, rules) ==
    \A i \in 1..Len(rules) : \A k \in 1..Len(ConditionsRead(rules[i])) :
        Get(signal, "type") # Get(ConditionsRead(rules[i])[k], "signal")

\* C13: over rules that carry a label, evaluate returns a list whatever the
\* signals are (unknown type, no type, no value field) and whatever the shape
\* of the rules' `when`; a rule without a recognised `when` does not fire and
\* a signal of no known type is in no hypothesis's evidence.
C13_EvaluateNeverRaises ==
    (ev_called /\ AllLabelled(ev_rules)) =>
        /\ ev_result.outcome = "returned"
        /\ \A i \in 1..Len(ev_rules) :
              NoRecognisedWhen(ev_rules[i]) => ~ev_loop[i].fired
        /\ \A h \in 1..Len(ev_result.hypotheses) :
              \A e \in 1..Len(ev_result.hypotheses[h].rule.evidence) :
                  ~Offending(ev_result.hypotheses[h].rule.evidence[e], ev_rules)

C13_Witness ==
    /\ ev_called
    /\ ev_rules = <<RuleNoWhen, RuleDatePair, RuleBoth, RuleEqualsId>>
    /\ ev_signals = <<SigNoType, SigUnknown, SigRoleValue>>
    /\ ev_result.outcome = "returned"
    /\ Len(ev_result.hypotheses) = 1
    /\ ev_result.hypotheses[1].rule.evidence = <<SigRoleValue>>

\* the `when` block of a rule, empty when the rule has none
WhenOf(rule) == IF "when" \in DOMAIN rule THEN rule.when ELSE EmptyDict

\* the block has at most one of the keys `all` and `any`
OneForm(block) == ~("all" \in DOMAIN block /\ "any" \in DOMAIN block)

\* the block holds as documented: every condition under `all`, or one under `any`
HoldsAsDocumented(block, signals) ==
    \/ /\ "all" \in DOMAIN block
       /\ \A k \in 1..Len(block.all) : _condition_matches(block.all[k], signals)
    \/ /\ "any" \in DOMAIN block
       /\ \E k \in 1..Len(block.any) : _condition_matches(block.any[k], signals)

\* C14: for a rule whose `when` uses one of the two forms, the block holds
\* iff it has `all` and every listed condition matches the signals, or it has
\* `any` and at least one does; a rule whose `when` has neither key, or that
\* has no `when`, does not fire.
C14_WhenHoldsByAllOrAny ==
    ev_called =>
        \A i \in DOMAIN ev_loop :
            /\ OneForm(WhenOf(ev_rules[i])) =>
                  (ev_loop[i].when_holds <=> HoldsAsDocumented(WhenOf(ev_rules[i]), ev_signals))
            /\ NoRecognisedWhen(ev_rules[i]) =>
                  (~ev_loop[i].when_holds /\ ~ev_loop[i].fired)

C14_Witness ==
    /\ ev_called
    /\ ev_rules = <<RuleMonetary, RuleDate, RuleIdByRole>>
    /\ ev_signals = <<SigCurrency, SigAbbreviation>>
    /\ ev_loop[1].when_holds
    /\ ~ev_loop[2].when_holds
    /\ ev_loop[3].when_holds

\* the number of hypotheses of the list that carry the label
CountLabel(hyps, label) ==
    Cardinality({h \in 1..Len(hyps) : hyps[h].label = label})

\* the returned list has, for each label, one hypothesis per rule of that
\* label that fired
EmitsTheFired ==
    ev_result.outcome = "returned" =>
        \A i \in 1..Len(ev_rules) :
            CountLabel(ev_result.hypotheses, ev_rules[i].label)
              = Cardinality({j \in 1..Len(ev_rules) :
                               /\ ev_rules[j].label = ev_rules[i].label
                               /\ ev_loop[j].fired})

\* C15: a rule whose `not` block holds on the signals, by the all/any reading
\* of `when`, emits no hypothesis, also when its `when` block holds.
C15_NotBlockVetoes ==
    (ev_called /\ AllLabelled(ev_rules)) =>
        /\ EmitsTheFired
        /\ \A i \in DOMAIN ev_loop :
              ( /\ "not" \in DOMAIN ev_rules[i]
                /\ OneForm(ev_rules[i].not)
                /\ HoldsAsDocumented(ev_rules[i].not, ev_signals) )
              => (~ev_loop[i].matched /\ ~ev_loop[i].fired)

C15_Witness ==
    /\ ev_called
    /\ ev_rules = <<RuleIdByRole, RuleIdByType, RuleDate>>
    /\ ev_signals = <<SigDataType, SigDate>>
    /\ ev_loop[2].when_holds
    /\ ~ev_loop[2].fired
    /\ Len(ev_result.hypotheses) = 1
    /\ ev_result.hypotheses[1].label = "date"

\* C16: a rule with min_signals = n fires only if the evidence it collects,
\* duplicates counted, has at least n items, every hypothesis of a rule with
\* a minimum has that much evidence, and a rule without min_signals fires
\* whenever it matches.
C16_MinSignals ==
    (ev_called /\ AllLabelled(ev_rules)) =>
        /\ EmitsTheFired
        /\ \A i \in DOMAIN ev_loop :
              IF "min_signals" \in DOMAIN ev_rules[i]
              THEN ev_loop[i].fired <=>
                     ( /\ ev_loop[i].matched
                       /\ Len(ev_loop[i].evidence) >= ev_rules[i].min_signals )
              ELSE ev_loop[i].fired <=> ev_loop[i].matched
        /\ \A h \in 1..Len(ev_result.hypotheses) :
              \A i \in 1..Len(ev_rules) :
                  ( /\ "min_signals" \in DOMAIN ev_rules[i]
                    /\ ev_rules[i].label = ev_result.hypotheses[h].label )
                  => Len(ev_result.hypotheses[h].rule.evidence) >= ev_rules[i].min_signals

C16_Witness ==
    /\ ev_called
    /\ ev_rules = <<RuleNoWhen, RuleDatePair, RuleBoth, RuleEqualsId>>
    /\ ev_signals = <<SigDate>>
    /\ ev_loop[2].matched
    /\ Len(ev_loop[2].evidence) = 1
    /\ ~ev_loop[2].fired
    /\ ev_result.hypotheses = <<>>

\* C17: in the list evaluate returns, of two adjacent hypotheses the earlier
\* has the higher priority, or the same priority and a confidence that is
\* not smaller, in hundredths and as the float it is, an absent priority
\* counting as 0.
C17_EvaluateSortedByPriorityThenConfidence ==
    (ev_called /\ ev_result.outcome = "returned") =>
        \A h \in 1..(Len(ev_result.hypotheses) - 1) :
            LET earlier == ev_result.hypotheses[h]
                later == ev_result.hypotheses[h + 1]
            IN \/ PriorityOrZero(earlier) > PriorityOrZero(later)
               \/ /\ PriorityOrZero(earlier) = PriorityOrZero(later)
                  /\ earlier.confidence >= later.confidence
                  /\ NatNotBelow(ConfidenceOf(earlier), ConfidenceOf(later))

C17_Witness ==
    /\ ev_called
    /\ ev_rules = <<RuleIdByRole, RuleIdByType, RuleDate>>
    /\ ev_signals = <<SigAbbreviation, SigDataType>>
    /\ Len(ev_result.hypotheses) = 2
    /\ PriorityOrZero(ev_result.hypotheses[1]) = 2
    /\ PriorityOrZero(ev_result.hypotheses[2]) = 1
    /\ ev_result.hypotheses[1].confidence < ev_result.hypotheses[2].confidence

----------------------------------------------------------------------------
(* Properties of InferenceResult, checked under SpecResult *)

\* the hypothesis ranks at least as high as the other by (priority, confidence),
\* an absent priority counting as 0
RanksNotBelow(h, other) ==
    \/ PriorityOrZero(h) > PriorityOrZero(other)
    \/ /\ PriorityOrZero(h) = PriorityOrZero(other)
       /\ h.confidence >= other.confidence

\* C18: best is None for a result without hypotheses, and otherwise one of the
\* result's hypotheses that ranks at least as high by (priority, confidence)
\* as every hypothesis of the result, in whatever order they are stored.
C18_BestIsMaximal ==
    "best" \in res_read =>
        IF res_hyps = <<>>
        THEN res_best = NoHypothesis
        ELSE /\ res_best \in Range(res_hyps)
             /\ \A i \in 1..Len(res_hyps) : RanksNotBelow(res_best, res_hyps[i])

C18_Witness ==
    /\ "best" \in res_read
    /\ res_hyps = <<HypDate, HypFlag, HypMonetary>>
    /\ res_best = HypMonetary

\* the two highest hypotheses of the list by (priority, confidence)
TopTwo(hyps) ==
    LET ranked == SortDesc(hyps, [i \in 1..Len(hyps) |-> RankKey(hyps[i])])
    IN <<ranked[1], ranked[2]>>

\* the distance between two confidences, in hundredths
Distance(a, b) == IF a >= b THEN a - b ELSE b - a

\* C19: is_ambiguous is true iff the result has at least two hypotheses, the
\* two highest by (priority, confidence) have equal priority and their
\* confidences differ by strictly less than 0.15, so that a difference of
\* exactly 0.15 gives false.
C19_AmbiguousIffCloseAtEqualPriority ==
    "is_ambiguous" \in res_read =>
        ( res_ambiguous <=>
            /\ Len(res_hyps) >= 2
            /\ PriorityOrZero(TopTwo(res_hyps)[1]) = PriorityOrZero(TopTwo(res_hyps)[2])
            /\ Distance(TopTwo(res_hyps)[1].confidence, TopTwo(res_hyps)[2].confidence)
                 < AmbiguityThreshold )

\* confidences 0.60 and 0.45 at equal priority are reported ambiguous
C19_Witness ==
    /\ "is_ambiguous" \in res_read
    /\ res_hyps = <<HypMonetary, HypIdentifier>>
    /\ Distance(HypMonetary.confidence, HypIdentifier.confidence) = AmbiguityThreshold
    /\ res_ambiguous

\* C20: recommendations and expected_conditions are the recommended_treatment
\* and the expected_conditions of the rule of the best hypothesis and nothing
\* of any other hypothesis, and are empty for a result without hypotheses.
C20_GuidanceFromBest ==
    /\ "recommendations" \in res_read =>
          res_recommendations =
            IF res_hyps = <<>> THEN <<>> ELSE best(res_hyps).rule.recommended_treatment
    /\ "expected_conditions" \in res_read =>
          res_expected =
            IF res_hyps = <<>> THEN <<>> ELSE best(res_hyps).rule.expected_conditions

C20_Witness ==
    /\ {"recommendations", "expected_conditions"} \subseteq res_read
    /\ res_hyps = <<HypDate, HypMonetary>>
    /\ res_recommendations = <<"sum">>
    /\ res_expected = <<[dtype |-> "numeric"]>>


----------------------------------------------------------------------------
(* Properties of evidence and conditions, checked under SpecEvaluate *)

\* the conditions of the block of a `when` that holds: those under `all`, else
\* those under `any`
MatchedBlock(rule) ==
    IF "all" \in DOMAIN WhenOf(rule) THEN WhenOf(rule).all
    ELSE IF "any" \in DOMAIN WhenOf(rule) THEN WhenOf(rule).any
    ELSE <<>>

\* the input signals of the type the condition names, in input order
OfConditionType(condition, signals) ==
    SelectSeq(signals, LAMBDA signal : Get(signal, "type") = Get(condition, "signal"))

\* the concatenation, over the first n conditions, of the signals of each
\* condition's type
RECURSIVE DocumentedEvidence(_, _, _)
DocumentedEvidence(conditions, signals, n) ==
    IF n = 0 THEN <<>>
    ELSE DocumentedEvidence(conditions, signals, n - 1)
           \o OfConditionType(conditions[n], signals)

\* how many times the item occurs in the list
Occurrences(list, item) == Cardinality({k \in 1..Len(list) : list[k] = item})

\* how many conditions of the list name the signal's type
NamedBy(conditions, signal) ==
    Cardinality({k \in 1..Len(conditions) :
                    Get(conditions[k], "signal") = Get(signal, "type")})

\* C21: the evidence of a rule that fired is the concatenation, over the
\* conditions of its matched block in rule order, of the input signals of that
\* condition's type in input order, whatever the condition's equals/in says and
\* whether or not the condition matched; a signal whose type k conditions name
\* is there k times for each time it is in the input, every evidence item is an
\* input signal, and the hypothesis carries that list.
C21_EvidenceIsConcatenationByType ==
    (ev_called /\ AllLabelled(ev_rules)) =>
        \A i \in DOMAIN ev_loop :
            (ev_loop[i].fired /\ OneForm(WhenOf(ev_rules[i]))) =>
                /\ ev_loop[i].evidence =
                     DocumentedEvidence(MatchedBlock(ev_rules[i]), ev_signals,
                                        Len(MatchedBlock(ev_rules[i])))
                /\ \A k \in 1..Len(ev_loop[i].evidence) :
                      /\ ev_loop[i].evidence[k] \in Range(ev_signals)
                      /\ Occurrences(ev_loop[i].evidence, ev_loop[i].evidence[k])
                           = NamedBy(MatchedBlock(ev_rules[i]), ev_loop[i].evidence[k])
                               * Occurrences(ev_signals, ev_loop[i].evidence[k])
                /\ \E h \in 1..Len(ev_result.hypotheses) :
                      /\ ev_result.hypotheses[h].label = ev_rules[i].label
                      /\ ev_result.hypotheses[h].rule.evidence = ev_loop[i].evidence

C21_Witness ==
    /\ ev_called
    /\ ev_rules = <<RuleRolePair, RuleTokenIn>>
    /\ ev_signals = <<SigRoleId, SigCurrency, SigRoleMetric>>
    /\ ev_loop[1].fired
    /\ ev_loop[1].evidence = <<SigRoleId, SigRoleMetric, SigRoleId, SigRoleMetric>>
    /\ ev_result.hypotheses[1].rule.evidence = ev_loop[1].evidence


\* the signal is of the condition's type and passes its equals/in constraint
Satisfies(signal, condition) ==
    /\ Get(signal, "type") = Get(condition, "signal")
    /\ SignalSatisfies(condition, signal)

\* C22 as claimed: every signal in the evidence of a rule that fired satisfies
\* a condition of the matched block, so that a signal of the right type that
\* fails the condition's equals or in is not in the evidence.
C22_EvidenceSatisfiesConditions ==
    (ev_called /\ AllLabelled(ev_rules)) =>
        \A i \in DOMAIN ev_loop :
            (ev_loop[i].fired /\ OneForm(WhenOf(ev_rules[i]))) =>
                \A k \in 1..Len(ev_loop[i].evidence) :
                    \E c \in 1..Len(MatchedBlock(ev_rules[i])) :
                        Satisfies(ev_loop[i].evidence[k], MatchedBlock(ev_rules[i])[c])

\* C22 as amended: every signal in the evidence of a rule that fired has the
\* type a condition of the matched block names, every input signal of such a
\* type is in the evidence whether or not it passes the condition's equals or
\* in, and the confidence of the hypothesis is the score of that whole list.
C22_EvidenceIsOfNamedTypes ==
    (ev_called /\ AllLabelled(ev_rules)) =>
        \A i \in DOMAIN ev_loop :
            (ev_loop[i].fired /\ OneForm(WhenOf(ev_rules[i]))) =>
                /\ \A k \in 1..Len(ev_loop[i].evidence) :
                      NamedBy(MatchedBlock(ev_rules[i]), ev_loop[i].evidence[k]) > 0
                /\ \A j \in 1..Len(ev_signals) :
                      NamedBy(MatchedBlock(ev_rules[i]), ev_signals[j]) > 0
                        => ev_signals[j] \in Range(ev_loop[i].evidence)
                /\ \E h \in 1..Len(ev_result.hypotheses) :
                      /\ ev_result.hypotheses[h].label = ev_rules[i].label
                      /\ ev_result.hypotheses[h].rule.evidence = ev_loop[i].evidence
                      /\ ev_result.hypotheses[h].confidence = score(ev_loop[i].evidence)

\* a metric role signal is evidence of the identifier rule
C22_Witness ==
    /\ ev_called
    /\ ev_rules = <<RuleMonetary, RuleDate, RuleIdByRole>>
    /\ ev_signals = <<SigRoleId, SigRoleMetric>>
    /\ ev_loop[3].fired
    /\ \A c \in 1..Len(MatchedBlock(RuleIdByRole)) :
          ~Satisfies(SigRoleMetric, MatchedBlock(RuleIdByRole)[c])
    /\ ev_loop[3].evidence = <<SigRoleId, SigRoleMetric>>
    /\ ev_result.hypotheses[1].confidence = 80


\* the field that holds the value of a signal of the type, as the detectors
\* write it
ValueField(signal_type) ==
    IF signal_type = "abbreviation" THEN "meaning"
    ELSE IF signal_type \in {"role", "currency", "data_type"} THEN signal_type
    ELSE "value"

\* the canonical value of a signal: its type-specific value field, or `value`
CanonicalValue(signal) ==
    IF ValueField(Get(signal, "type")) \in DOMAIN signal
    THEN signal[ValueField(Get(signal, "type"))]
    ELSE Get(signal, "value")

\* C23: a condition {signal: T, equals: v} matches the signal list iff some
\* signal of type T has its canonical value, the type-specific value field
\* (role, currency, meaning, data_type) or `value`, equal to v; so a signal
\* {type: role, token: t, role: r} satisfies {signal: role, equals: r}.
C23_EqualsComparesCanonicalValue ==
    ev_called =>
        \A i \in DOMAIN ev_loop :
            \A k \in 1..Len(ConditionsRead(ev_rules[i])) :
                "equals" \in DOMAIN ConditionsRead(ev_rules[i])[k] =>
                    ( ev_loop[i].condition_matches[k] <=>
                        \E j \in 1..Len(ev_signals) :
                            /\ Get(ev_signals[j], "type")
                                 = Get(ConditionsRead(ev_rules[i])[k], "signal")
                            /\ CanonicalValue(ev_signals[j])
                                 = ConditionsRead(ev_rules[i])[k].equals )

\* a detector's identifier role signal does not match equals: identifier
C23_Witness ==
    /\ ev_called
    /\ ev_rules = <<RuleNoWhen, RuleDatePair, RuleBoth, RuleEqualsId>>
    /\ ev_signals = <<SigRoleId>>
    /\ CanonicalValue(SigRoleId) = RuleEqualsId.when.all[1].equals
    /\ ~ev_loop[4].condition_matches[1]
    /\ ev_result.hypotheses = <<>>


\* the documented order in which the fields of a signal of the type are looked at
DocumentedOrder(signal_type) ==
    CASE signal_type = "role" -> <<"role", "token", "meaning", "value">>
      [] signal_type = "currency" -> <<"currency", "token", "meaning", "value">>
      [] signal_type = "abbreviation" -> <<"token", "meaning", "role", "value">>
      [] OTHER -> <<"token", "role", "currency", "meaning", "value">>

\* the value of the first field of the order that the signal has is in the list
FirstPresentIn(signal, order, members) ==
    \E f \in 1..Len(order) :
        /\ order[f] \in DOMAIN signal
        /\ \A g \in 1..(f - 1) : order[g] \notin DOMAIN signal
        /\ signal[order[f]] \in members

\* C24: a condition {signal: T, in: L} matches iff for some signal of type T
\* the value of the first field the signal has, in the order documented for T,
\* is a member of L; a later field is not looked at when an earlier one is
\* there, and a signal with none of the fields does not match.
C24_InUsesFirstPresentField ==
    ev_called =>
        \A i \in DOMAIN ev_loop :
            \A k \in 1..Len(ConditionsRead(ev_rules[i])) :
                LET condition == ConditionsRead(ev_rules[i])[k]
                IN ("in" \in DOMAIN condition /\ "equals" \notin DOMAIN condition) =>
                    ( ev_loop[i].condition_matches[k] <=>
                        \E j \in 1..Len(ev_signals) :
                            /\ Get(ev_signals[j], "type") = Get(condition, "signal")
                            /\ FirstPresentIn(ev_signals[j],
                                              DocumentedOrder(Get(condition, "signal")),
                                              condition.in) )

\* the first field of the currency signal is there and holds the empty string,
\* which the list of the last condition has; the condition does not match
C24_Witness ==
    /\ ev_called
    /\ ev_rules = <<RuleRolePair, RuleTokenIn>>
    /\ ev_signals = <<SigCurrencyBlank>>
    /\ FirstPresentIn(SigCurrencyBlank, DocumentedOrder("currency"),
                      RuleTokenIn.when.any[5].in)
    /\ ev_loop[2].condition_matches = <<FALSE, FALSE, FALSE, FALSE, FALSE>>
    /\ ev_result.hypotheses = <<>>


\* C25: a condition with neither equals nor in matches iff the signal list
\* has a signal of the condition's type, whatever other keys the condition
\* carries and whatever the value fields of the signal are.
C25_BareConditionMatchesOnType ==
    ev_called =>
        \A i \in DOMAIN ev_loop :
            \A k \in 1..Len(ConditionsRead(ev_rules[i])) :
                LET condition == ConditionsRead(ev_rules[i])[k]
                IN ("in" \notin DOMAIN condition /\ "equals" \notin DOMAIN condition) =>
                    ( ev_loop[i].condition_matches[k] <=>
                        \E j \in 1..Len(ev_signals) :
                            Get(ev_signals[j], "type") = Get(condition, "signal") )

\* a condition on date that carries a note does not match a date signal
C25_Witness ==
    /\ ev_called
    /\ ev_rules = <<RuleAnnotated, RuleVacuous, RuleEmptyAllAny>>
    /\ ev_signals = <<SigDate>>
    /\ DOMAIN RuleAnnotated.when.any[1] = {"signal", "note"}
    /\ ev_loop[1].condition_matches = <<FALSE>>
    /\ ~ev_loop[1].fired


\* C26: a step that is an evaluate call leaves the engine, its rule list (order
\* and records) and the caller's signal list and signal records as they were,
\* and a second call on the same engine and signals returns what the first
\* returned.
C26_CallsLeaveRulesAndSignals ==
    [][ (ev_called' # ev_called \/ ev_again' # ev_again) =>
            /\ ev_rules' = ev_rules
            /\ ev_signals' = ev_signals
            /\ ev_engine' = ev_engine
            /\ ev_again' # NoEvaluation => ev_again' = ev_result' ]_vars

C26_Witness ==
    /\ ev_rules = <<RuleMonetary, RuleDate, RuleIdByRole>>
    /\ ev_signals = <<SigCurrency, SigAbbreviation, SigDate>>
    /\ ev_engine = "constructed"
    /\ Len(ev_result.hypotheses) = 3
    /\ ev_again = ev_result


----------------------------------------------------------------------------
(* Monotonicity of ConfidenceEngine.score, checked under SpecScore *)

\* C27: the score of an evidence list with one more signal appended is not
\* below the score of the list without it.
C27_ScoreMonotone ==
    sc_calls = 2 => sc_result >= sc_prev

\* a date signal appended to [currency, abbreviation] lowers 1.20 to 0.95
C27_Witness ==
    /\ sc_calls = 2
    /\ sc_signals = <<SigCurrency, SigAbbreviation, SigDate>>
    /\ sc_prev = score(<<SigCurrency, SigAbbreviation>>)
    /\ sc_result < sc_prev


----------------------------------------------------------------------------
(* Non-empty evidence of emitted hypotheses, checked under SpecEvaluate *)

\* C28: every hypothesis evaluate returns has a non-empty evidence list and a
\* confidence above 0, for every rule list, one with a rule {all: []} or a rule
\* with an empty `all` beside a non-empty `any` included.
C28_HypothesesHaveEvidence ==
    (ev_called /\ ev_result.outcome = "returned") =>
        \A h \in 1..Len(ev_result.hypotheses) :
            /\ ev_result.hypotheses[h].rule.evidence # <<>>
            /\ ev_result.hypotheses[h].confidence > 0

\* on an empty signal list both rules with an empty `all` emit a hypothesis
C28_Witness ==
    /\ ev_called
    /\ ev_rules = <<RuleAnnotated, RuleVacuous, RuleEmptyAllAny>>
    /\ ev_signals = <<>>
    /\ Len(ev_result.hypotheses) = 2
    /\ \A h \in 1..2 :
          /\ ev_result.hypotheses[h].rule.evidence = <<>>
          /\ ev_result.hypotheses[h].confidence = 0


----------------------------------------------------------------------------
(* ColumnAnalysisResults against InferenceResult, checked under SpecResult *)

\* C29: get_best_for_column(name) is the best of the column's InferenceResult,
\* the maximum by (priority, confidence), and is None exactly when the column
\* is unknown or has no hypotheses.
C29_ColumnBestIsResultBest ==
    "get_best_for_column" \in res_read =>
        /\ res_asked = AnalysedColumn => res_column_best = best(res_hyps)
        /\ res_column_best = NoHypothesis
             <=> (res_asked # AnalysedColumn \/ res_hyps = <<>>)

\* a priority-1 hypothesis of confidence 0.60 is returned ahead of the best,
\* a priority-2 hypothesis of confidence 0.30
C29_Witness ==
    /\ {"get_best_for_column", "best"} \subseteq res_read
    /\ res_asked = AnalysedColumn
    /\ res_hyps = <<HypFlag, HypKey>>
    /\ res_best = HypFlag
    /\ res_column_best = HypKey


----------------------------------------------------------------------------
(* Properties of EvidenceEngine, checked under SpecEvidence *)

\* the evidences of the type among those handed to the engine, in call order
AddedOfType(semantic_type) ==
    SelectSeq(evd_log, LAMBDA e : e.semantic_type = semantic_type)

\* the sum of the weights of the first n evidences of the list
RECURSIVE WeightSum(_, _)
WeightSum(evidences, n) ==
    IF n = 0 THEN 0 ELSE WeightSum(evidences, n - 1) + evidences[n].weight

\* r is the total to 3 decimals, both in ten-thousandths: a whole number of
\* thousandths at most half a thousandth away from the total
IsToThreeDecimals(r, total) ==
    /\ r % 10 = 0
    /\ r - total <= 5
    /\ total - r <= 5

\* C30: after any adds and add_manys, aggregate returns one entry for each
\* semantic type that was handed an evidence and no other, whose evidences
\* are all evidences of the type added since construction, in the order they
\* were added, and whose score is the sum of their weights to 3 decimals, a
\* sum half-way between two thousandths going to either of them; no call
\* removes stored evidence, and an aggregate that follows an aggregate
\* returns the same as it.
C30_AggregateGroupsAllEvidence ==
    /\ evd_evidences = evd_log
    /\ evd_last \in {"aggregate", "aggregate again"} =>
          /\ DOMAIN evd_result = {evd_log[i].semantic_type : i \in 1..Len(evd_log)}
          /\ \A t \in DOMAIN evd_result :
                /\ evd_result[t].evidences = AddedOfType(t)
                /\ IsToThreeDecimals(evd_result[t].score,
                                     WeightSum(AddedOfType(t), Len(AddedOfType(t))))
    /\ evd_last = "aggregate again" => evd_result = evd_prev

\* 0.7 and 0.0015 of one type, a sum half-way between 0.701 and 0.702
C30_Witness ==
    /\ evd_last = "aggregate"
    /\ evd_calls = 2
    /\ evd_log = <<EvPrimaryId, EvDateSuffix, EvIdHint>>
    /\ DOMAIN evd_prev = {"primary_id"}
    /\ DOMAIN evd_result = {"primary_id", "date"}
    /\ evd_result["primary_id"].evidences = <<EvPrimaryId, EvIdHint>>
    /\ WeightSum(evd_result["primary_id"].evidences, 2) = 7015
    /\ evd_result["primary_id"].score = 7010

====
